---- MODULE Spec2Model ----
(***************************************************************************)
(* yt-sub-transfer: main of src/yt-sub-transfer.py, the login bootstrap    *)
(* (ensure_auth_and_get_state_file, wait_until_logged_in), the worker loop *)
(* (run_worker_with_state), the per-channel action (subscribe_once,        *)
(* set_notifications_none), the checkpoint file (read_offset /             *)
(* write_offset) and the two append-only sinks, as a state machine.        *)
(*                                                                         *)
(* One process runs at a time.  A run may be interrupted at any statement  *)
(* boundary and started again; the files on disk are what survives.        *)
(* Every Playwright call is an environment step: whether a locator becomes *)
(* visible, whether a click raises, whether the page can be reached.       *)
(***************************************************************************)
EXTENDS Integers, Sequences, FiniteSets, TLC

\* ------------------------------------------------------------------ bounds
MaxTargets == 2        \* rows in subscriptions.csv
MaxRuns == 2           \* process starts (first run + resumes)
RestartEveryN == 1     \* Config.restart_every_n (25 in the source), scaled down
MaxText == 3           \* characters of last_offset.txt that are enumerated
MaxRetries == 1        \* largest Config.retries_per_channel that is enumerated
LoginWaitSecs == 2     \* Config.login_wait_secs (600 in the source), in polls of one second

\* --------------------------------------------------------- program constants
NumSubscribeSelectors == 4    \* len(SUBSCRIBE_SELECTORS)
NumSubscribedSelectors == 3   \* len(SUBSCRIBED_SELECTORS)
DefaultRetries == 0           \* retries_per_channel: int = 0

VARIABLES
    rows,                     \* subscriptions.csv: the "Channel Url" field of each row
    retries_per_channel,      \* Config.retries_per_channel
    auth_file,                \* auth.json exists
    user_done,                \* user_done["flag"] of wait_until_logged_in
    listener,                 \* the wait_for_enter thread: "-", "waiting" (in input()) or "done"
    elapsed,                  \* seconds slept by the polling loop of wait_until_logged_in
    polled,                   \* what the latest poll of that loop saw
    fatal,                    \* message of the SystemExit that ended the run, or NoFatal
    offset_file,              \* last_offset.txt: [exists, text]
    log_file,                 \* subscription_log.txt: records written through log_fp
    log_buf,                  \* how many trailing records of log_file are still in log_fp's buffer
    skipped_file,             \* skipped_channels.csv: rows written through skipped_writer
    skipped_buf,              \* how many trailing rows are still in skipped_fp's buffer
    pc,                       \* position of the process
    idx,                      \* loop variable of "for idx, row in iter_csv_rows"
    start_index,              \* local start_index
    processed_since_restart,  \* local processed_since_restart
    result,                   \* SubscribeResult returned by subscribe_once
    notif,                    \* how set_notifications_none ended in the current call
    strategy,                 \* strategy set_notifications_none is about to try
    trace,                    \* steps attempted inside the current subscribe_once call
    browsers,                 \* live browser sessions of the worker
    trail,                    \* history: what this run did, in order
    runs,                     \* history: number of times the worker loop was entered
    interrupted_at            \* history: target in flight when the previous run was interrupted, or NoTarget

vars == <<rows, retries_per_channel, auth_file, user_done, listener, elapsed, polled, fatal,
          offset_file, log_file, log_buf, skipped_file, skipped_buf, pc, idx,
          start_index, processed_since_restart, result, notif, strategy, trace,
          browsers, trail, runs, interrupted_at>>

NoTarget == 0 - 1
NoResult == [ok |-> FALSE, reason |-> "-"]
NoFatal == "-"
NotPolled == "-"
NoReason == ""

\* ------------------------------------------------------------ text helpers
DigitChars == <<"0", "1", "2", "3", "4", "5", "6", "7", "8", "9">>
Digits == {DigitChars[i] : i \in 1..10}
DigitVal(c) == CHOOSE d \in 0..9 : DigitChars[d + 1] = c

RECURSIVE LStrip(_)
LStrip(s) == IF s # <<>> /\ Head(s) = " " THEN LStrip(Tail(s)) ELSE s

RECURSIVE RStrip(_)
RStrip(s) == IF s # <<>> /\ s[Len(s)] = " " THEN RStrip(SubSeq(s, 1, Len(s) - 1)) ELSE s

\* str.strip()
Strip(s) == RStrip(LStrip(s))

\* str(i) for the integers the loop writes
RECURSIVE Str(_)
Str(n) ==
    IF n < 0 THEN <<"-">> \o Str(0 - n)
    ELSE IF n < 10 THEN <<DigitChars[n + 1]>>
    ELSE Str(n \div 10) \o <<DigitChars[(n % 10) + 1]>>

RECURSIVE DigitsValue(_)
DigitsValue(s) ==
    IF s = <<>> THEN 0 ELSE 10 * DigitsValue(SubSeq(s, 1, Len(s) - 1)) + DigitVal(s[Len(s)])

AllDigits(s) == s # <<>> /\ \A i \in 1..Len(s) : s[i] \in Digits

\* int(text): optional sign, then decimal digits; anything else raises ValueError
IntParses(s) ==
    IF s # <<>> /\ Head(s) \in {"-", "+"} THEN AllDigits(Tail(s)) ELSE AllDigits(s)

IntValue(s) ==
    IF Head(s) = "-" THEN 0 - DigitsValue(Tail(s))
    ELSE IF Head(s) = "+" THEN DigitsValue(Tail(s))
    ELSE DigitsValue(s)

\* ------------------------------------------------------------- checkpoint
NoFile == [exists |-> FALSE, text |-> <<>>]

\* a byte read_text() cannot decode
Undecodable == "#"

\* Path.read_text() raising (UnicodeDecodeError)
read_text_raises(f) == \E k \in DOMAIN f.text : f.text[k] = Undecodable

read_offset(f) ==
    IF ~f.exists THEN 0
    ELSE IF read_text_raises(f) THEN 0
    ELSE LET t == Strip(f.text)
             s == IF t = <<>> THEN <<"0">> ELSE t
         IN  IF IntParses(s) THEN IntValue(s) ELSE 0

\* write_offset one row too far
write_offset_ahead(i) == [exists |-> TRUE, text |-> Str(i + 1)]

write_offset(i) == [exists |-> TRUE, text |-> Str(i)]

\* ------------------------------------------------------------ the CSV rows
UrlFields == {<<>>, <<" ">>, <<" ", "u", " ">>}

\* channel_url without the strip()
channel_url_raw(row) == row

\* channel_url = (row.get("Channel Url") or "").strip()
channel_url(row) == Strip(row)

\* "if not channel_url"
missing_url(url) == url = <<>>

\* the loop without the skip of checkpointed rows
before_start_never(i, start) == FALSE

\* the skip stopping one row short of the checkpoint
before_start_short(i, start) == i < start - 1

\* "if idx < start_index: continue"
before_start(i, start) == i < start

\* the restart test with > for >=
restart_due_late(n) == n > RestartEveryN

\* "if processed_since_restart >= CFG.restart_every_n"
restart_due(n) == n >= RestartEveryN

\* ------------------------------------------------------- SubscribeResult
SubscribeResult(ok, reason) == [ok |-> ok, reason |-> reason]

\* subscribe_once, after set_notifications_none returned:
\*   if not notif.ok: return SubscribeResult(True, f"subscribed but {notif.reason}")
\*   return SubscribeResult(True)
subscribed_but(reason) ==
    IF reason = "notif menu not found" THEN "subscribed but notif menu not found"
    ELSE "subscribed but notif 'None' option not found"

\* a failed notification step reported as a failed channel
after_notifications_hard(n) ==
    IF ~n.ok THEN SubscribeResult(FALSE, n.reason)
    ELSE SubscribeResult(TRUE, NoReason)

after_notifications(n) ==
    IF ~n.ok THEN SubscribeResult(TRUE, subscribed_but(n.reason))
    ELSE SubscribeResult(TRUE, NoReason)

\* the order in which set_notifications_none tries to click the "None" item
Strategies == {"role", "css", "text", "xpath"}
FirstStrategy == "role"
Exhausted == "exhausted"

\* the chain with the text selectors tried before the CSS scan
NextStrategy_text_first(s) ==
    CASE s = "role" -> "text"
      [] s = "text" -> "css"
      [] s = "css" -> "xpath"
      [] OTHER -> Exhausted

NextStrategy(s) ==
    CASE s = "role" -> "css"
      [] s = "css" -> "text"
      [] s = "text" -> "xpath"
      [] OTHER -> Exhausted

\* ------------------------------------------------------------ history
Event(ev, i, v) == [ev |-> ev, i |-> i, v |-> v]

InFlight == {"skip_logged", "goto", "sub_resolve", "sub_click", "subscribed_check",
             "notif_open", "none", "result", "logged"}
Running == InFlight \cup {"for", "written", "slept", "restart"}
\* positions before the loop: ensure_auth_and_get_state_file and the worker's start
Starting == {"auth", "probe", "login_wait", "login_check", "worker"}
Ended == {"idle", "done", "fatal"}

\* ------------------------------------------------------------------ Init
\* the state before the first start, but for the configuration
InitState ==
    /\ rows \in UNION {[1..n -> UrlFields] : n \in 0..MaxTargets}
    /\ auth_file = FALSE
    /\ user_done = FALSE
    /\ listener = "-"
    /\ elapsed = 0
    /\ polled = NotPolled
    /\ fatal = NoFatal
    /\ offset_file = NoFile
    /\ log_file = <<>>
    /\ log_buf = 0
    /\ skipped_file = <<>>
    /\ skipped_buf = 0
    /\ pc = "idle"
    /\ idx = 0
    /\ start_index = 0
    /\ processed_since_restart = 0
    /\ result = NoResult
    /\ notif = "-"
    /\ strategy = "-"
    /\ trace = <<>>
    /\ browsers = 0
    /\ trail = <<>>
    /\ runs = 0
    /\ interrupted_at = NoTarget

\* CFG = Config(): every field has its default
Init == InitState /\ retries_per_channel = DefaultRetries

\* what no step of the program writes
config == <<rows, retries_per_channel>>

\* locals of wait_until_logged_in
wait == <<user_done, listener, elapsed, polled>>
auth == <<auth_file, wait, fatal>>
files == <<offset_file, log_file, log_buf, skipped_file, skipped_buf>>
sinks == <<log_file, log_buf, skipped_file, skipped_buf>>
call == <<result, notif, strategy, trace>>

worker == <<idx, start_index, processed_since_restart, call>>
reset_wait ==
    /\ user_done' = FALSE
    /\ listener' = "-"
    /\ elapsed' = 0
    /\ polled' = NotPolled

\* ------------------------------------------------------------ sessions
\* the exit of "with sync_playwright() as p" without its effect on the browsers
playwright_exit_none(b) == b

\* line 585: leaving "with sync_playwright() as p", on return or on any
\* exception, stops the Playwright driver and with it every browser it launched
playwright_exit(b) == 0

\* "ctx.close(); browser.close()": when ctx.close() raises, browser.close() is
\* not reached and the browser stays
close_session(b, closed) == IF closed THEN b - 1 ELSE b

\* ------------------------------------------------------------------ main
CsvMissing == "CSV file not found"
LoginTimedOut == "Login not detected in time."
NoAvatar == "Avatar not detected; not saving state."

\* sys.exit status of the process: SystemExit(message) exits with 1
exit_status(message) == IF message = NoFatal THEN 0 ELSE 1

\* lines 565-585: a process starts, with fresh locals; without
\* subscriptions.csv it exits at once
Main ==
    /\ pc \in Ended
    /\ runs < MaxRuns
    /\ idx' = 0
    /\ start_index' = 0
    /\ processed_since_restart' = 0
    /\ trail' = <<>>
    /\ \E csv_exists \in BOOLEAN :
          IF csv_exists
          THEN pc' = "auth" /\ fatal' = NoFatal
          ELSE pc' = "fatal" /\ fatal' = CsvMissing
    /\ UNCHANGED <<config, auth_file, wait, files, call, browsers, runs, interrupted_at>>

\* --------------------------------------- ensure_auth_and_get_state_file
\* lines 204-210: auth.json exists; a browser is launched with it
LaunchProbe ==
    /\ pc = "auth"
    /\ auth_file
    /\ browsers' = browsers + 1
    /\ pc' = "probe"
    /\ UNCHANGED <<config, auth, files, worker, trail, runs, interrupted_at>>

\* lines 211-219: the avatar decides; the browser is closed; a stale auth.json is removed
ProbeAuth ==
    /\ pc = "probe"
    /\ browsers' = browsers - 1
    /\ \E ok \in BOOLEAN :
          IF ok
          THEN pc' = "worker" /\ auth_file' = auth_file
          ELSE pc' = "auth" /\ auth_file' = FALSE
    /\ UNCHANGED <<config, wait, fatal, files, worker, trail, runs, interrupted_at>>

\* lines 221-232 and 179-190: no valid auth.json; the login window opens, the
\* wait_for_enter thread starts and the polling loop is entered
OpenLogin ==
    /\ pc = "auth"
    /\ ~auth_file
    /\ browsers' = browsers + 1
    /\ user_done' = FALSE
    /\ listener' = "waiting"
    /\ elapsed' = 0
    /\ polled' = NotPolled
    /\ pc' = "login_wait"
    /\ UNCHANGED <<config, auth_file, fatal, files, worker, trail, runs, interrupted_at>>

\* lines 180-182: input() returns in the daemon thread, which sets the flag;
\* the thread lives on after wait_until_logged_in has returned
PressEnter ==
    /\ listener = "waiting"
    /\ user_done' = TRUE
    /\ listener' = "done"
    /\ UNCHANGED <<config, auth_file, fatal, elapsed, polled, files, worker, pc, browsers,
                   trail, runs, interrupted_at>>

Observation(flag, avatar) ==
    IF flag /\ avatar THEN "both"
    ELSE IF flag THEN "flag"
    ELSE IF avatar THEN "avatar"
    ELSE "neither"

\* the poll looking at the avatar only
logged_in_avatar_only(flag, avatar) == avatar

\* line 194: user_done["flag"] or any_page_has_avatar(ctx)
logged_in(flag, avatar) == flag \/ avatar

\* lines 191-196: one round of the polling loop
PollLogin ==
    /\ pc = "login_wait"
    /\ elapsed < LoginWaitSecs
    /\ \E avatar \in BOOLEAN :
          /\ polled' = Observation(user_done, avatar)
          /\ IF logged_in(user_done, avatar)
             THEN pc' = "login_check" /\ elapsed' = 0
             ELSE pc' = "login_wait" /\ elapsed' = elapsed + 1
    /\ UNCHANGED <<config, auth_file, fatal, user_done, listener, files, worker, browsers,
                   trail, runs, interrupted_at>>

\* the wait running out without the exit
LoginTimeout_proceeds ==
    /\ pc = "login_wait"
    /\ elapsed >= LoginWaitSecs
    /\ pc' = "login_check"
    /\ UNCHANGED <<config, auth, files, worker, browsers, trail, runs, interrupted_at>>

\* lines 197 and 235-237: the loop ran out; close and SystemExit
LoginTimeout ==
    /\ pc = "login_wait"
    /\ elapsed >= LoginWaitSecs
    /\ \E closed \in BOOLEAN : browsers' = playwright_exit(close_session(browsers, closed))
    /\ fatal' = LoginTimedOut
    /\ reset_wait
    /\ pc' = "fatal"
    /\ UNCHANGED <<config, auth_file, files, worker, trail, runs, interrupted_at>>

\* the check after the wait going on without writing auth.json
CheckAvatar_no_save ==
    /\ pc = "login_check"
    /\ browsers' = browsers - 1
    /\ auth_file' = auth_file
    /\ pc' = "worker"
    /\ polled' = NotPolled
    /\ UNCHANGED <<config, fatal, user_done, listener, elapsed, files, worker, trail, runs,
                   interrupted_at>>

\* lines 239-247: the avatar is looked for once more; without it SystemExit,
\* with it auth.json is written; the browser is closed either way
CheckAvatar ==
    /\ pc = "login_check"
    /\ \E avatar \in BOOLEAN :
          IF avatar
          THEN /\ auth_file' = TRUE
               /\ browsers' = browsers - 1
               /\ fatal' = fatal
               /\ pc' = "worker"
               /\ polled' = NotPolled
               /\ UNCHANGED <<user_done, listener, elapsed>>
          ELSE /\ auth_file' = auth_file
               /\ \E closed \in BOOLEAN :
                     browsers' = playwright_exit(close_session(browsers, closed))
               /\ fatal' = NoAvatar
               /\ pc' = "fatal"
               /\ reset_wait
    /\ UNCHANGED <<config, files, worker, trail, runs, interrupted_at>>

\* ------------------------------------------------- run_worker_with_state
\* lines 473-491: open both sinks for append, read the checkpoint, launch the
\* browser; new_context or new_page raising comes before the try of line 493.
\* Nothing reads user_done from here on, so the wait_for_enter thread is
\* followed no further.
StartRun ==
    /\ pc = "worker"
    /\ processed_since_restart' = 0
    /\ start_index' = read_offset(offset_file)
    /\ idx' = 0
    /\ trail' = <<>>
    /\ reset_wait
    /\ \E launched \in BOOLEAN :
          IF launched
          THEN pc' = "for" /\ browsers' = browsers + 1 /\ runs' = runs + 1
          ELSE pc' = "idle" /\ browsers' = playwright_exit(browsers + 1) /\ runs' = runs
    /\ UNCHANGED <<config, auth_file, fatal, files, call, interrupted_at>>

\* lines 494-496: a row before the checkpointed offset is passed over
SkipDone ==
    /\ pc = "for"
    /\ idx < Len(rows)
    /\ before_start(idx, start_index)
    /\ idx' = idx + 1
    /\ UNCHANGED <<config, auth, files, pc, start_index, processed_since_restart, call,
                   browsers, trail, runs, interrupted_at>>

\* lines 498-504: a row without a URL is written to the skipped sink
MissingUrl ==
    /\ pc = "for"
    /\ idx < Len(rows)
    /\ ~before_start(idx, start_index)
    /\ missing_url(channel_url(rows[idx + 1]))
    /\ skipped_file' = Append(skipped_file, [i |-> idx, reason |-> "missing url"])
    /\ skipped_buf' = skipped_buf + 1
    /\ trail' = Append(trail, Event("skipped", idx, NoTarget))
    /\ pc' = "skip_logged"
    /\ UNCHANGED <<config, auth, offset_file, log_file, log_buf, idx, start_index,
                   processed_since_restart, call, browsers, runs, interrupted_at>>

\* the missing-URL branch going on without its write_offset
MissingUrlNoCheckpoint ==
    /\ pc = "skip_logged"
    /\ idx' = idx + 1
    /\ pc' = "for"
    /\ UNCHANGED <<config, auth, files, start_index, processed_since_restart, call,
                   browsers, trail, runs, interrupted_at>>

\* lines 505-506: write_offset(idx + 1); continue
MissingUrlCheckpoint ==
    /\ pc = "skip_logged"
    /\ offset_file' = write_offset(idx + 1)
    /\ trail' = Append(trail, Event("write_offset", idx, idx + 1))
    /\ idx' = idx + 1
    /\ pc' = "for"
    /\ UNCHANGED <<config, auth, sinks, start_index, processed_since_restart, call,
                   browsers, runs, interrupted_at>>

\* line 508: result = subscribe_once(page, channel_title, channel_url)
CallSubscribeOnce ==
    /\ pc = "for"
    /\ idx < Len(rows)
    /\ ~before_start(idx, start_index)
    /\ ~missing_url(channel_url(rows[idx + 1]))
    /\ trail' = Append(trail, Event("subscribe_once", idx, NoTarget))
    /\ trace' = <<>>
    /\ notif' = "-"
    /\ result' = NoResult
    /\ pc' = "goto"
    /\ UNCHANGED <<config, auth, files, idx, start_index, processed_since_restart, strategy,
                   browsers, runs, interrupted_at>>

\* ------------------------------------------------------- subscribe_once
\* what a step inside subscribe_once leaves alone
caller == <<config, auth, files, idx, start_index, processed_since_restart, browsers,
            trail, runs, interrupted_at>>

\* page.goto without the try of lines 420-424: the error leaves subscribe_once
Goto_propagates ==
    /\ pc = "goto"
    /\ trace' = Append(trace, "goto")
    /\ \E reached \in BOOLEAN :
          IF reached THEN pc' = "sub_resolve" ELSE pc' = "idle"
    /\ UNCHANGED <<caller, result, notif, strategy>>

\* a failed page.goto noted as the result, the sub-steps attempted all the same
Goto_then_substeps ==
    /\ pc = "goto"
    /\ trace' = Append(trace, "goto")
    /\ \E reached \in BOOLEAN :
          /\ pc' = "sub_resolve"
          /\ result' = IF reached THEN result ELSE SubscribeResult(FALSE, "navigation")
    /\ UNCHANGED <<caller, notif, strategy>>

\* lines 420-424: page.goto; an exception is returned as "navigation: ..."
Goto ==
    /\ pc = "goto"
    /\ trace' = Append(trace, "goto")
    /\ \E reached \in BOOLEAN :
          IF reached
          THEN pc' = "sub_resolve" /\ UNCHANGED result
          ELSE pc' = "result" /\ result' = SubscribeResult(FALSE, "navigation")
    /\ UNCHANGED <<caller, notif, strategy>>

\* lines 428-436: the first SUBSCRIBE_SELECTORS entry that becomes visible, if any
ResolveSubscribe ==
    /\ pc = "sub_resolve"
    /\ \E found \in 0..NumSubscribeSelectors :
          /\ trace' = Append(trace, "resolve_subscribe")
          /\ pc' = IF found > 0 THEN "sub_click" ELSE "subscribed_check"
    /\ UNCHANGED <<caller, result, notif, strategy>>

\* lines 438-444: click, forced click if that raises; a second raise reaches line 465
ClickSubscribe ==
    /\ pc = "sub_click"
    /\ \E how \in {"click", "force", "raise"} :
          IF how = "raise"
          THEN /\ trace' = Append(trace, "subscribe_click_raised")
               /\ result' = SubscribeResult(FALSE, "click")
               /\ pc' = "result"
          ELSE /\ trace' = Append(trace, "subscribe_clicked")
               /\ pc' = "notif_open"
               /\ UNCHANGED result
    /\ UNCHANGED <<caller, notif, strategy>>

\* the notification step reached without either button
CheckSubscribed_lenient ==
    /\ pc = "subscribed_check"
    /\ \E found \in 0..NumSubscribedSelectors :
          /\ trace' = Append(trace, IF found > 0 THEN "subscribed_found"
                                                ELSE "subscribed_not_found")
          /\ pc' = "notif_open"
    /\ UNCHANGED <<caller, result, notif, strategy>>

\* lines 446-457: no Subscribe button; is a "Subscribed" button there?
CheckSubscribed ==
    /\ pc = "subscribed_check"
    /\ \E found \in 0..NumSubscribedSelectors :
          IF found > 0
          THEN /\ trace' = Append(trace, "subscribed_found")
               /\ pc' = "notif_open"
               /\ UNCHANGED result
          ELSE /\ trace' = Append(trace, "subscribed_not_found")
               /\ result' = SubscribeResult(FALSE, "subscribe button not found")
               /\ pc' = "result"
    /\ UNCHANGED <<caller, notif, strategy>>

\* ----------------------------------------------- set_notifications_none
\* lines 379-383: open_notifications_menu, then get_menu_root.
\* get_menu_root calls candidates.count() outside any try (line 273), both
\* in menu_is_open at line 296 and at line 383: an error there leaves
\* set_notifications_none and is caught at line 465 of subscribe_once.
OpenNotificationsMenu ==
    /\ pc = "notif_open"
    /\ trace' = Append(trace, "open_menu")
    /\ \E how \in {"opened", "not_found", "raise"} :
          CASE how = "opened" ->
                 /\ strategy' = FirstStrategy
                 /\ pc' = "none"
                 /\ UNCHANGED <<result, notif>>
            [] how = "not_found" ->
                 /\ notif' = "notif menu not found"
                 /\ result' = after_notifications(SubscribeResult(FALSE, "notif menu not found"))
                 /\ pc' = "result"
                 /\ UNCHANGED strategy
            [] OTHER ->
                 /\ notif' = "raised"
                 /\ result' = SubscribeResult(FALSE, "click")
                 /\ pc' = "result"
                 /\ UNCHANGED strategy
    /\ UNCHANGED caller

\* one strategy of lines 385-416: if it finds the item and the click goes
\* through, return SubscribeResult(True); if not, fall through to the next
\* strategy; after the last one,
\* SubscribeResult(False, "notif 'None' option not found")
TryStrategy(s) ==
    /\ pc = "none"
    /\ strategy = s
    /\ \E clicked \in BOOLEAN :
          IF clicked
          THEN /\ trace' = trace \o <<s, "none_clicked">>
               /\ notif' = "ok"
               /\ result' = after_notifications(SubscribeResult(TRUE, NoReason))
               /\ pc' = "result"
               /\ UNCHANGED strategy
          ELSE /\ trace' = Append(trace, s)
               /\ IF NextStrategy(s) = Exhausted
                  THEN /\ notif' = "notif 'None' option not found"
                       /\ result' = after_notifications(
                                       SubscribeResult(FALSE, "notif 'None' option not found"))
                       /\ pc' = "result"
                       /\ UNCHANGED strategy
                  ELSE /\ strategy' = NextStrategy(s)
                       /\ UNCHANGED <<pc, result, notif>>
    /\ UNCHANGED caller

\* lines 385-387 and 327-351: the two ARIA-role attempts
ClickNoneByRole == TryStrategy("role")

\* lines 389-391 and 353-376: scan of [role='menuitemradio'] items
ClickNoneByCssScan == TryStrategy("css")

\* lines 393-403: the text selectors
ClickNoneByText == TryStrategy("text")

\* lines 405-416: the absolute XPath
ClickNoneByXpath == TryStrategy("xpath")

\* --------------------------------------- run_worker_with_state, continued
\* the locals of a finished or abandoned subscribe_once call are gone
reset_call ==
    /\ result' = NoResult
    /\ notif' = "-"
    /\ strategy' = "-"
    /\ trace' = <<>>

\* the two sinks exchanged
sink_of_swapped(r) == IF r.ok THEN "skipped" ELSE "log"

\* which sink a result goes to (line 509: "if result.ok")
sink_of(r) == IF r.ok THEN "log" ELSE "skipped"

\* a failed channel written to both sinks
LogOutcome_both ==
    /\ pc = "result"
    /\ skipped_file' = IF result.ok THEN skipped_file
                       ELSE Append(skipped_file, [i |-> idx, reason |-> result.reason])
    /\ skipped_buf' = IF result.ok THEN skipped_buf ELSE skipped_buf + 1
    /\ log_file' = Append(log_file, [i |-> idx, reason |-> result.reason])
    /\ log_buf' = log_buf + 1
    /\ trail' = Append(trail, Event(sink_of(result), idx, NoTarget))
    /\ pc' = "logged"
    /\ UNCHANGED <<config, auth, offset_file, idx, start_index, processed_since_restart, call,
                   browsers, runs, interrupted_at>>

\* lines 509-517: classify the result and write it to its sink
LogOutcome ==
    /\ pc = "result"
    /\ IF sink_of(result) = "log"
       THEN /\ log_file' = Append(log_file, [i |-> idx, reason |-> result.reason])
            /\ log_buf' = log_buf + 1
            /\ trail' = Append(trail, Event("log", idx, NoTarget))
            /\ UNCHANGED <<skipped_file, skipped_buf>>
       ELSE /\ skipped_file' = Append(skipped_file, [i |-> idx, reason |-> result.reason])
            /\ skipped_buf' = skipped_buf + 1
            /\ trail' = Append(trail, Event("skipped", idx, NoTarget))
            /\ UNCHANGED <<log_file, log_buf>>
    /\ pc' = "logged"
    /\ UNCHANGED <<config, auth, offset_file, idx, start_index, processed_since_restart, call,
                   browsers, runs, interrupted_at>>

\* line 519: write_offset(idx + 1)
Checkpoint ==
    /\ pc = "logged"
    /\ offset_file' = write_offset(idx + 1)
    /\ trail' = Append(trail, Event("write_offset", idx, idx + 1))
    /\ reset_call
    /\ pc' = "written"
    /\ UNCHANGED <<config, auth, sinks, idx, start_index, processed_since_restart,
                   browsers, runs, interrupted_at>>

\* the loop without its sleep
Throttle_skipped ==
    /\ pc = "written"
    /\ pc' = "slept"
    /\ UNCHANGED <<config, auth, files, idx, start_index, processed_since_restart, call,
                   browsers, trail, runs, interrupted_at>>

\* line 520: time.sleep(CFG.throttle_secs)
Throttle ==
    /\ pc = "written"
    /\ trail' = Append(trail, Event("sleep", idx, NoTarget))
    /\ pc' = "slept"
    /\ UNCHANGED <<config, auth, files, idx, start_index, processed_since_restart, call,
                   browsers, runs, interrupted_at>>

\* lines 522-523: count the channel; go on with the next row unless a restart is due
CountProcessed ==
    /\ pc = "slept"
    /\ processed_since_restart' = processed_since_restart + 1
    /\ IF restart_due(processed_since_restart + 1)
       THEN pc' = "restart" /\ UNCHANGED idx
       ELSE pc' = "for" /\ idx' = idx + 1
    /\ UNCHANGED <<config, auth, files, start_index, call, browsers, trail, runs, interrupted_at>>

\* lines 524-538: close the browser, launch a new one, reset the count
RestartBrowser ==
    /\ pc = "restart"
    /\ \E closed \in BOOLEAN : browsers' = close_session(browsers, closed) + 1
    /\ processed_since_restart' = 0
    /\ trail' = Append(trail, Event("restart", idx, NoTarget))
    /\ idx' = idx + 1
    /\ pc' = "for"
    /\ UNCHANGED <<config, auth, files, start_index, call, runs, interrupted_at>>

\* the loop ends; lines 539-543 close the browser, the "with" of lines 473-474
\* closes both sinks, which writes out what they buffered
Finish ==
    /\ pc = "for"
    /\ idx >= Len(rows)
    /\ \E closed \in BOOLEAN : browsers' = playwright_exit(close_session(browsers, closed))
    /\ log_buf' = 0
    /\ skipped_buf' = 0
    /\ pc' = "done"
    /\ interrupted_at' = NoTarget
    /\ UNCHANGED <<config, auth, offset_file, log_file, skipped_file, idx, start_index,
                   processed_since_restart, call, trail, runs>>

\* ---------------------------------------------------------- interruptions
interrupted(p, i, was) ==
    IF p \in InFlight THEN i ELSE IF p \in Running THEN NoTarget ELSE was

\* An exception that nothing catches (KeyboardInterrupt, an error of
\* write_offset or of a sink, a Playwright error before the loop) ends the
\* process: in the loop the finally of lines 539-543 closes the browser and
\* the "with" closes the sinks; everywhere the "with" of line 585 is left.
Raise ==
    /\ pc \in Starting \/ (pc \in Running /\ runs < MaxRuns)
    /\ interrupted_at' = interrupted(pc, idx, interrupted_at)
    /\ \E closed \in BOOLEAN :
          browsers' = playwright_exit(IF pc \in Running
                                      THEN close_session(browsers, closed)
                                      ELSE browsers)
    /\ log_buf' = 0
    /\ skipped_buf' = 0
    /\ reset_call
    /\ reset_wait
    /\ pc' = "idle"
    /\ UNCHANGED <<config, auth_file, fatal, offset_file, log_file, skipped_file, idx, start_index,
                   processed_since_restart, trail, runs>>

\* The process is killed: nothing runs any more.  write_offset closed its
\* file, so the checkpoint is on disk; log_fp and skipped_fp are never
\* flushed inside the loop and a handful of records does not fill their
\* buffers, so the records written since the run started are lost.
Kill ==
    /\ pc \in Starting \/ (pc \in Running /\ runs < MaxRuns)
    /\ interrupted_at' = interrupted(pc, idx, interrupted_at)
    /\ reset_wait
    /\ browsers' = 0
    /\ log_file' = SubSeq(log_file, 1, Len(log_file) - log_buf)
    /\ skipped_file' = SubSeq(skipped_file, 1, Len(skipped_file) - skipped_buf)
    /\ log_buf' = 0
    /\ skipped_buf' = 0
    /\ reset_call
    /\ pc' = "idle"
    /\ UNCHANGED <<config, auth_file, fatal, offset_file, idx, start_index,
                   processed_since_restart, trail, runs>>

\* ------------------------------------------------------------------ Next
Next ==
    \/ Main
    \/ LaunchProbe
    \/ ProbeAuth
    \/ OpenLogin
    \/ PressEnter
    \/ PollLogin
    \/ LoginTimeout
    \/ CheckAvatar
    \/ StartRun
    \/ SkipDone
    \/ MissingUrl
    \/ MissingUrlCheckpoint
    \/ CallSubscribeOnce
    \/ Goto
    \/ ResolveSubscribe
    \/ ClickSubscribe
    \/ CheckSubscribed
    \/ OpenNotificationsMenu
    \/ ClickNoneByRole
    \/ ClickNoneByCssScan
    \/ ClickNoneByText
    \/ ClickNoneByXpath
    \/ LogOutcome
    \/ Checkpoint
    \/ Throttle
    \/ CountProcessed
    \/ RestartBrowser
    \/ Finish
    \/ Raise
    \/ Kill

Spec == Init /\ [][Next]_vars

\* the steps up to the worker's start alone; the main thread keeps running
\* (its polling loop sleeps one second at a time), the thread in input() need not
NextLogin ==
    \/ Main
    \/ LaunchProbe
    \/ ProbeAuth
    \/ OpenLogin
    \/ PressEnter
    \/ PollLogin
    \/ LoginTimeout
    \/ CheckAvatar
    \/ Raise
    \/ Kill

SpecLogin ==
    Init /\ [][NextLogin]_vars /\ WF_vars(PollLogin) /\ WF_vars(LoginTimeout)

TypeOK ==
    /\ pc \in Running \cup Starting \cup Ended
    /\ idx \in 0..MaxTargets
    /\ browsers \in 0..(MaxTargets + 1)
    /\ auth_file \in BOOLEAN
    /\ user_done \in BOOLEAN
    /\ listener \in {"-", "waiting", "done"}
    /\ elapsed \in 0..LoginWaitSecs
    /\ polled \in {NotPolled, "neither", "flag", "avatar", "both"}
    /\ fatal \in {NoFatal, CsvMissing, LoginTimedOut, NoAvatar}
    /\ (pc = "fatal") = (fatal # NoFatal)
    /\ log_buf \in 0..Len(log_file)
    /\ skipped_buf \in 0..Len(skipped_file)

\* ================================================================ properties
Targets == 0..(Len(rows) - 1)
Last(s) == s[Len(s)]
LastIs(s, r) == s # <<>> /\ Last(s) = r
Positions(ev, i) == {k \in DOMAIN trail : trail[k].ev = ev /\ trail[k].i = i}
Records(sink, i) == Cardinality({k \in DOMAIN sink : sink[k].i = i})
Logged(i) == Records(log_file, i) + Records(skipped_file, i)

\* ----------------------------------------------------------------------- C1
\* C1: over any run, interrupted and resumed or not, every target is logged
\* exactly once: never twice, and once the list is exhausted none is missing.
C1_EveryTargetLoggedExactlyOnce ==
    /\ \A i \in Targets : Logged(i) <= 1
    /\ pc = "done" => \A i \in Targets : Logged(i) = 1

\* ----------------------------------------------------------------------- C2
\* C2: a run that starts with checkpoint k never calls subscribe_once, never
\* writes a sink record and never writes the checkpoint for a target below k.
C2_NothingBelowCheckpoint ==
    /\ \A k \in DOMAIN trail : trail[k].i >= start_index
    /\ pc \in InFlight => idx >= start_index

C2_Witness ==
    /\ runs = 2
    /\ start_index = 1
    /\ idx = 1
    /\ Positions("subscribe_once", 1) # {}
    /\ Positions("write_offset", 1) # {}

\* ----------------------------------------------------------------------- C3
\* C3: when a run is interrupted while target i is in flight (started, its
\* checkpoint i+1 not yet written), the next run starts exactly at i.
C3_ResumeAtInFlightTarget ==
    (pc \in Running /\ interrupted_at # NoTarget) => start_index = interrupted_at

C3_Witness ==
    /\ runs = 2
    /\ interrupted_at = 1
    /\ pc = "goto"
    /\ idx = 1

\* ----------------------------------------------------------------------- C4
\* C4: in a run, each processed target has exactly one write_offset, its
\* argument is index+1, it directly follows the write of the target's
\* outcome to a sink, and nothing of a later target comes before it.
C4_OneCheckpointPerTarget ==
    /\ \A k \in DOMAIN trail :
          trail[k].ev = "write_offset" =>
             /\ trail[k].v = trail[k].i + 1
             /\ k > 1
             /\ trail[k - 1].ev \in {"log", "skipped"}
             /\ trail[k - 1].i = trail[k].i
    /\ \A k \in DOMAIN trail :
          (trail[k].ev \in {"log", "skipped"} /\ k < Len(trail)) =>
             /\ trail[k + 1].ev = "write_offset"
             /\ trail[k + 1].i = trail[k].i
    /\ \A i \in Targets :
          /\ Cardinality(Positions("write_offset", i)) <= 1
          /\ (pc = "for" /\ start_index <= i /\ i < idx) =>
                Cardinality(Positions("write_offset", i)) = 1
    /\ pc \in {"written", "slept", "restart"} => Positions("write_offset", idx) # {}

C4_Witness ==
    /\ pc = "for"
    /\ idx = 2
    /\ Positions("skipped", 0) # {} /\ missing_url(channel_url(rows[1]))
    /\ Positions("write_offset", 0) # {}
    /\ Positions("log", 1) # {}
    /\ Positions("write_offset", 1) # {}

\* ----------------------------------------------------------------------- C5
\* C5: the checkpoint on disk never decreases, whatever the outcomes,
\* restarts, interruptions and resumes.
C5_OffsetNeverDecreases ==
    [][read_offset(offset_file') >= read_offset(offset_file)]_vars

C5_Witness ==
    /\ runs = 2
    /\ start_index = 1
    /\ read_offset(offset_file) = 2

\* ----------------------------------------------------------------------- C6
SubscribeStepOk == \E k \in DOMAIN trace : trace[k] \in {"subscribe_clicked", "subscribed_found"}
AfterResult == {"result", "logged"}
AfterLog == {"logged"}

RoutedAsWarning ==
    /\ result.ok
    /\ result.reason # NoReason
    /\ pc \in AfterLog =>
          /\ Positions("log", idx) # {}
          /\ Positions("skipped", idx) = {}
          /\ LastIs(log_file, [i |-> idx, reason |-> result.reason])

\* C6 as stated: after a successful subscribe step, a notification step that
\* fails in any way (also by raising) gives ok with a reason, one record in
\* the success sink and none in the failure sink.
C6_AnyNotificationFailureIsWarning ==
    (pc \in AfterResult /\ SubscribeStepOk /\ notif \notin {"-", "ok"}) => RoutedAsWarning

\* C6 amended: after a successful subscribe step, a notification step that
\* returns a failure (menu not found, "None" option not found) gives ok with
\* a reason, one record in the success sink and none in the failure sink.
C6_ReturnedNotificationFailureIsWarning ==
    (/\ pc \in AfterResult
     /\ SubscribeStepOk
     /\ notif \in {"notif menu not found", "notif 'None' option not found"}) => RoutedAsWarning

C6_Witness ==
    /\ pc = "logged"
    /\ SubscribeStepOk
    /\ notif = "notif 'None' option not found"
    /\ LastIs(log_file, [i |-> idx, reason |-> "subscribed but notif 'None' option not found"])

\* ----------------------------------------------------------------------- C7
\* events that follow the last restart of this run
RECURSIVE SinceRestart(_)
SinceRestart(t) ==
    IF t = <<>> \/ Last(t).ev = "restart" THEN <<>>
    ELSE Append(SinceRestart(SubSeq(t, 1, Len(t) - 1)), Last(t))

CountOf(t, ev) == Cardinality({k \in DOMAIN t : t[k].ev = ev})

\* every target given a checkpoint since the run start or the last restart
ProcessedSinceRestart == CountOf(SinceRestart(trail), "write_offset")
\* the targets among them that subscribe_once was called for
AttemptedSinceRestart == CountOf(SinceRestart(trail), "subscribe_once")

\* C7 as stated: counting every processed target whatever its outcome, the
\* browser is restarted after exactly restart_every_n of them, before the
\* next target, and not earlier.
C7_RestartEveryNProcessed ==
    /\ pc = "for" => ProcessedSinceRestart < RestartEveryN
    /\ pc = "restart" => ProcessedSinceRestart = RestartEveryN

\* C7 amended: counting the targets subscribe_once was called for (rows
\* skipped for a missing URL do not count), the browser is restarted after
\* exactly restart_every_n of them, before the next target, and not earlier.
C7_RestartEveryNAttempted ==
    /\ pc = "for" => AttemptedSinceRestart < RestartEveryN
    /\ pc = "restart" => AttemptedSinceRestart = RestartEveryN
    /\ \A k \in DOMAIN trail :
          trail[k].ev = "restart" =>
             CountOf(SinceRestart(SubSeq(trail, 1, k - 1)), "subscribe_once") = RestartEveryN

C7_Witness ==
    /\ pc = "for"
    /\ idx = 2
    /\ missing_url(channel_url(rows[1]))
    /\ Positions("restart", 0) = {}
    /\ Positions("restart", 1) # {}

\* ----------------------------------------------------------------------- C8
Blank(field) == \A k \in DOMAIN field : field[k] = " "

\* C8: a row whose URL field is empty or only whitespace gets a row
\* "missing url" in the skipped sink and nothing else but its checkpoint:
\* no subscribe_once call, no success record.
C8_MissingUrlIsSkipped ==
    /\ \A k \in DOMAIN trail :
          Blank(rows[trail[k].i + 1]) => trail[k].ev \in {"skipped", "write_offset"}
    /\ \A i \in Targets :
          (Blank(rows[i + 1]) /\ (i < idx \/ (i = idx /\ pc = "skip_logged")) /\ i >= start_index) =>
             Cardinality(Positions("skipped", i)) = 1
    /\ pc = "skip_logged" => LastIs(skipped_file, [i |-> idx, reason |-> "missing url"])
    /\ pc \in InFlight \ {"skip_logged"} => ~Blank(rows[idx + 1])
    /\ \A k \in DOMAIN skipped_file :
          Blank(rows[skipped_file[k].i + 1]) <=> skipped_file[k].reason = "missing url"
    /\ \A k \in DOMAIN log_file : ~Blank(rows[log_file[k].i + 1])

C8_Witness ==
    /\ pc = "skip_logged"
    /\ rows[idx + 1] = <<" ">>
    /\ idx = 1
    /\ Positions("subscribe_once", 0) # {}

\* ----------------------------------------------------------------------- C9
Success == SubscribeResult(TRUE, NoReason)
SubscribeResolved ==
    \E k \in DOMAIN trace : trace[k] \in {"subscribe_clicked", "subscribe_click_raised"}
NeitherControlFound == \E k \in DOMAIN trace : trace[k] = "subscribed_not_found"

FirstRunRest ==
    /\ (pc \in AfterResult /\ NeitherControlFound) =>
          result = SubscribeResult(FALSE, "subscribe button not found")
    /\ pc = "skip_logged" => LastIs(skipped_file, [i |-> idx, reason |-> "missing url"])
    /\ pc \in AfterLog =>
          IF result.ok THEN LastIs(log_file, [i |-> idx, reason |-> result.reason])
          ELSE LastIs(skipped_file, [i |-> idx, reason |-> result.reason])
    /\ \A i \in Targets :
          (pc \in {"for", "done"} /\ i < idx /\ rows[i + 1] = <<>>) =>
             \E k \in DOMAIN skipped_file : skipped_file[k] = [i |-> i, reason |-> "missing url"]
    /\ pc = "done" => read_offset(offset_file) = Len(rows)

\* C9 as stated: in an uninterrupted run from checkpoint 0, a valid URL with
\* a resolvable subscribe control gives Success, an empty URL gives
\* Skipped("missing url"), a valid URL with neither control gives
\* Failed("subscribe button not found"), and the final checkpoint is n.
C9_OutcomeByClass ==
    runs = 1 =>
       /\ (pc \in AfterResult /\ SubscribeResolved) => result = Success
       /\ FirstRunRest

\* C9 amended: as stated, but the first class gives Success only if the
\* click does not raise and the notification step succeeds.
C9_OutcomeByClassAndNotification ==
    runs = 1 =>
       /\ (pc \in AfterResult /\ SubscribeResolved /\ notif = "ok") => result = Success
       /\ FirstRunRest

C9_Witness ==
    /\ runs = 1
    /\ pc = "done"
    /\ Len(rows) = 2
    /\ read_offset(offset_file) = 2
    /\ log_file = <<[i |-> 1, reason |-> NoReason]>>
    /\ skipped_file = <<[i |-> 0, reason |-> "missing url"]>>

\* ---------------------------------------------------------------------- C10
\* what set_notifications_none did after opening the menu
RECURSIVE AfterOpenMenu(_)
AfterOpenMenu(t) ==
    IF t = <<>> THEN <<>>
    ELSE IF Head(t) = "open_menu" THEN Tail(t)
    ELSE AfterOpenMenu(Tail(t))

AttemptsUpTo(s) ==
    CASE s = "role" -> <<"role">>
      [] s = "css" -> <<"role", "css">>
      [] s = "text" -> <<"role", "css", "text">>
      [] OTHER -> <<"role", "css", "text", "xpath">>

\* the strategy whose click went through
ClickedBy == trace[Len(trace) - 1]

\* C10: on a menu where strategy s is the one that succeeds, the strategies
\* role, css, text, xpath before s were each attempted, in that order, and
\* failed, then s was attempted; no strategy after s is attempted and the
\* item is clicked exactly once.
C10_FallbackOrder ==
    (pc \in AfterResult /\ notif = "ok") =>
       /\ ClickedBy \in Strategies
       /\ AfterOpenMenu(trace) = AttemptsUpTo(ClickedBy) \o <<"none_clicked">>
       /\ result = Success

C10_Witness ==
    /\ pc = "result"
    /\ notif = "ok"
    /\ ClickedBy = "text"
    /\ AfterOpenMenu(trace) = <<"role", "css", "text", "none_clicked">>

\* ---------------------------------------------------------------------- C11
NavigationFailed == pc \in AfterResult /\ trace = <<"goto">>
FailureSeen ==
    \/ NavigationFailed
    \/ notif = "raised"
    \/ \E k \in DOMAIN trace : trace[k] \in {"subscribe_click_raised", "subscribed_not_found"}

C11_Recorded ==
    /\ (pc \in AfterResult /\ FailureSeen) =>
          /\ ~result.ok
          /\ result.reason \in {"navigation", "click", "subscribe button not found"}
    /\ (pc = "logged" /\ ~result.ok) =>
          /\ LastIs(skipped_file, [i |-> idx, reason |-> result.reason])
          /\ Last(trail) = Event("skipped", idx, NoTarget)
    /\ \A k \in DOMAIN trail :
          (trail[k].ev = "skipped" /\ k < Len(trail)) =>
             trail[k + 1] = Event("write_offset", trail[k].i, trail[k].i + 1)
    /\ \A k \in DOMAIN trail :
          k < Len(trail) => trail[k + 1].i \in {trail[k].i, trail[k].i + 1}
    /\ pc = "done" =>
          \A i \in Targets : i >= start_index => Positions("write_offset", i) # {}

\* only an interruption from outside ends a run while a target is in flight
C11_NoAbort == (pc \in InFlight /\ pc' \notin Running) => (Raise \/ Kill)

\* C11: a navigation failure, a control that is not found or an exception
\* raised while driving the page for target i becomes a Failed result with a
\* reason, goes to the skipped sink, is followed by write_offset(i+1), and
\* the loop goes on with target i+1; it never ends the run.
C11_FailureDoesNotAbort == []C11_Recorded /\ [][C11_NoAbort]_vars

C11_Witness ==
    /\ pc = "for"
    /\ idx = 2
    /\ \E k \in DOMAIN skipped_file : skipped_file[k] = [i |-> 0, reason |-> "navigation"]
    /\ Positions("write_offset", 0) # {}
    /\ Positions("subscribe_once", 1) # {}
    /\ \E k \in DOMAIN skipped_file : skipped_file[k] = [i |-> 1, reason |-> "click"]

\* ---------------------------------------------------------------------- C18
MenuTouched == \E k \in DOMAIN trace : trace[k] = "open_menu"

\* C18: inside one subscribe_once call the notification menu is touched only
\* after the Subscribe button was clicked or a Subscribed button was found;
\* if neither is found the result is Failed and the menu is never touched.
C18_SubscribeBeforeNotifications ==
    /\ \A k \in DOMAIN trace :
          trace[k] = "open_menu" =>
             \E j \in 1..(k - 1) : trace[j] \in {"subscribe_clicked", "subscribed_found"}
    /\ pc \in {"notif_open", "none"} => SubscribeStepOk
    /\ notif # "-" => MenuTouched
    /\ NeitherControlFound =>
          /\ ~MenuTouched
          /\ notif = "-"
          /\ pc \in AfterResult
          /\ result = SubscribeResult(FALSE, "subscribe button not found")

C18_Witness ==
    /\ pc = "none"
    /\ strategy = "css"
    /\ trace = <<"goto", "resolve_subscribe", "subscribed_found", "open_menu", "role">>

\* ---------------------------------------------------------------------- C19
Grew(sink, sink2) == Len(sink2) - Len(sink)

C19_Step ==
    IF pc = "result" /\ pc' = "logged"
    THEN IF result.ok
         THEN /\ Grew(log_file, log_file') = 1
              /\ Grew(skipped_file, skipped_file') = 0
              /\ Last(log_file') = [i |-> idx, reason |-> result.reason]
         ELSE /\ Grew(log_file, log_file') = 0
              /\ Grew(skipped_file, skipped_file') = 1
              /\ Last(skipped_file') = [i |-> idx, reason |-> result.reason]
              /\ result.reason # NoReason
    ELSE IF pc = "for" /\ pc' = "skip_logged"
    THEN /\ Grew(log_file, log_file') = 0
         /\ Grew(skipped_file, skipped_file') = 1
         /\ Last(skipped_file') = [i |-> idx, reason |-> "missing url"]
    ELSE /\ Grew(log_file, log_file') <= 0
         /\ Grew(skipped_file, skipped_file') <= 0

\* C19: each processing of a target appends exactly one record to exactly
\* one sink: ok results (with their warning text, if any) one line to the
\* success log, skipped and failed ones one row with a reason to the skipped
\* file; no other step appends anything.
C19_OneRecordOneSink == [][C19_Step]_vars

C19_Witness ==
    /\ pc = "logged"
    /\ idx = 1
    /\ skipped_file = <<[i |-> 0, reason |-> "subscribe button not found"]>>
    /\ log_file = <<[i |-> 1, reason |-> "subscribed but notif menu not found"]>>

\* ---------------------------------------------------------------------- C20
\* C20 as stated: after every target, a row skipped for a missing URL
\* included, the loop sleeps before it starts the next target.
C20_SleepAfterEveryTarget ==
    /\ \A k \in DOMAIN trail :
          (trail[k].ev = "write_offset" /\ k < Len(trail)) =>
             trail[k + 1] = Event("sleep", trail[k].i, NoTarget)
    /\ (pc = "for" /\ trail # <<>>) => Last(trail).ev \in {"sleep", "restart"}

\* C20 amended: after every target subscribe_once was called for, whatever
\* its result, the loop sleeps before it starts the next target; after a row
\* skipped for a missing URL it does not sleep.
C20_SleepAfterEveryAttempt ==
    /\ \A k \in DOMAIN trail :
          (trail[k].ev = "write_offset" /\ k < Len(trail)) =>
             IF Positions("subscribe_once", trail[k].i) # {}
             THEN trail[k + 1] = Event("sleep", trail[k].i, NoTarget)
             ELSE trail[k + 1].ev # "sleep"
    /\ (pc = "for" /\ trail # <<>>) =>
          IF Positions("subscribe_once", Last(trail).i) # {}
          THEN Last(trail).ev \in {"sleep", "restart"}
          ELSE Last(trail).ev = "write_offset"
    /\ \A i \in Targets :
          Cardinality(Positions("sleep", i)) <= Cardinality(Positions("subscribe_once", i))

C20_Witness ==
    /\ pc = "for"
    /\ idx = 2
    /\ Positions("sleep", 0) # {}
    /\ Positions("skipped", 0) # {}
    /\ missing_url(channel_url(rows[2]))
    /\ Positions("sleep", 1) = {}

\* ---------------------------------------------------------------------- C12
\* the program under every configured retry count up to MaxRetries
InitConfig == InitState /\ retries_per_channel \in 0..MaxRetries

SpecConfig == InitConfig /\ [][Next]_vars

Attempts(i) == Cardinality(Positions("subscribe_once", i))

\* C12: with retries_per_channel = r a target whose attempt fails is
\* attempted again, up to r more times, before its Failed result is produced
\* (so a Failed result comes after r + 1 attempts), and a target is never
\* attempted again once the loop has moved past it.
C12_RetriedWithinTarget ==
    /\ \A i \in Targets : Attempts(i) <= retries_per_channel + 1
    /\ (pc = "result" /\ ~result.ok) => Attempts(idx) = retries_per_channel + 1
    /\ \A k \in DOMAIN trail :
          trail[k].ev = "subscribe_once" =>
             \A j \in 1..(k - 1) : trail[j].ev = "write_offset" => trail[j].i < trail[k].i

C14_Step ==
    /\ pc' \in Starting \cup {"fatal"} => (files' = files /\ trail' = <<>>)
    /\ (pc \in Ended /\ pc' = "fatal") => fatal' = CsvMissing
    /\ (pc = "login_wait" /\ elapsed >= LoginWaitSecs /\ pc' # pc) =>
          /\ pc' \in {"fatal", "idle"}
          /\ pc' = "fatal" => fatal' = LoginTimedOut

C14_Fatal ==
    /\ (pc = "fatal") = (fatal # NoFatal)
    /\ pc = "fatal" => (exit_status(fatal) # 0 /\ trail = <<>>)
    /\ pc \in Running => fatal = NoFatal

\* C14: when subscriptions.csv is missing or the login wait runs out, the
\* process exits with a non-zero status before subscribe_once is called for
\* any target, and from its start to that exit last_offset.txt and both sinks
\* stay as they were.
C14_FatalBeforeProgress == []C14_Fatal /\ [][C14_Step]_vars

C14_Witness ==
    /\ pc = "fatal"
    /\ fatal = LoginTimedOut
    /\ offset_file = write_offset(1)
    /\ skipped_file # <<>>

\* ---------------------------------------------------------------------- C15
Signalled == {"flag", "avatar", "both"}

C15_Wait ==
    /\ pc = "login_wait" => polled \in {NotPolled, "neither"}
    /\ pc = "login_check" => polled \in Signalled

C15_Step ==
    /\ (pc = "login_wait" /\ pc' \in {"login_wait", "login_check"} /\ listener' = listener) =>
          /\ (pc' = "login_check") = (polled' \in Signalled)
          /\ user_done => polled' \in {"flag", "both"}
    /\ (pc = "login_wait" /\ pc' = "fatal") =>
          (polled = "neither" /\ elapsed >= LoginWaitSecs /\ fatal' = LoginTimedOut)
    /\ (listener = "waiting" /\ listener' = "done" /\ pc # "login_wait") =>
          UNCHANGED <<pc, fatal, auth_file, files, browsers, trail, polled, elapsed>>

C15_Ends == (pc = "login_wait") ~> (pc # "login_wait")

\* C15: however the wait_for_enter thread and the polling loop interleave,
\* the wait ends with success at the first poll that sees the flag or the
\* avatar, with failure only when no poll saw either before the time ran
\* out; it always ends, even if Enter is never pressed; and the flag being
\* set after the wait has ended changes nothing but the flag.
C15_LoginWaitRace == []C15_Wait /\ [][C15_Step]_vars /\ C15_Ends

C15_Witness ==
    /\ pc = "login_check"
    /\ polled = "avatar"
    /\ user_done
    /\ listener = "done"

\* ---------------------------------------------------------------------- C16
LeavesCheck == pc = "login_check" /\ pc' \notin {"login_check", "idle"}

\* C16 as stated: once the wait has ended with either signal (the avatar
\* seen or Enter pressed), auth.json is written and the run goes on to the
\* worker.
C16_PersistsOnEitherSignal ==
    [][LeavesCheck => (pc' = "worker" /\ auth_file')]_vars

C16_Saved ==
    /\ pc = "worker" => auth_file
    /\ pc \in Running => auth_file

C16_Step ==
    LeavesCheck =>
       \/ pc' = "worker" /\ auth_file'
       \/ pc' = "fatal" /\ fatal' = NoAvatar /\ auth_file' = auth_file

\* C16 amended: once the wait has ended with either signal, auth.json is
\* written and the run goes on to the worker if the avatar is visible at the
\* check that follows the wait; otherwise the run ends with "Avatar not
\* detected; not saving state." and auth.json is not written.  The worker
\* never starts without auth.json.
C16_PersistsWhenAvatarVisible == []C16_Saved /\ [][C16_Step]_vars

C16_Witness ==
    /\ pc = "worker"
    /\ auth_file
    /\ listener = "done"
    /\ user_done

\* ---------------------------------------------------------------------- C17
\* read_offset over every content of last_offset.txt up to MaxText characters
OffsetChars == {"0", "1", "7", "-", "+", " ", "x", Undecodable}
OffsetTexts == UNION {[1..n -> OffsetChars] : n \in 0..MaxText}
OffsetFiles == {NoFile} \cup {[exists |-> TRUE, text |-> t] : t \in OffsetTexts}

InitOffset ==
    /\ rows = <<>>
    /\ retries_per_channel = DefaultRetries
    /\ auth_file = FALSE /\ user_done = FALSE /\ listener = "-" /\ elapsed = 0
    /\ polled = NotPolled /\ fatal = NoFatal
    /\ offset_file \in OffsetFiles
    /\ log_file = <<>> /\ log_buf = 0
    /\ skipped_file = <<>> /\ skipped_buf = 0
    /\ pc = "idle"
    /\ idx = 0 /\ start_index = 0 /\ processed_since_restart = 0
    /\ result = NoResult /\ notif = "-" /\ strategy = "-" /\ trace = <<>>
    /\ browsers = 0 /\ trail = <<>> /\ runs = 0 /\ interrupted_at = NoTarget

\* line 481: start_index = read_offset()
ReadOffset ==
    /\ pc = "idle"
    /\ start_index' = read_offset(offset_file)
    /\ pc' = "read"
    /\ UNCHANGED <<config, auth, files, idx, processed_since_restart, call, browsers, trail,
                   runs, interrupted_at>>

NextOffset == ReadOffset

SpecOffset == InitOffset /\ [][NextOffset]_vars

StoresOffset(f) ==
    /\ f.exists
    /\ ~read_text_raises(f)
    /\ IntParses(Strip(f.text))
    /\ IntValue(Strip(f.text)) >= 0

\* C17: for every content of the checkpoint file read_offset returns a
\* non-negative integer: the stored value when the file holds one, and 0
\* when the file is absent, empty, unreadable or corrupt.
C17_ReadOffsetNonNegative ==
    pc = "read" =>
       /\ start_index \in Nat
       /\ start_index = IF StoresOffset(offset_file)
                        THEN IntValue(Strip(offset_file.text)) ELSE 0

\* ---------------------------------------------------------------------- C21
\* where the session stands, read off the position of the process: no
\* process (not yet initialised, or closed), before the worker's browser
\* exists, or in the loop with the worker's browser
Lifecycle(p) ==
    IF p \in Ended THEN "Closed"
    ELSE IF p \in Starting THEN "Authenticating"
    ELSE "Ready"

LifecycleSteps ==
    {<<"Closed", "Closed">>, <<"Closed", "Authenticating">>,
     <<"Authenticating", "Authenticating">>, <<"Authenticating", "Ready">>,
     <<"Authenticating", "Closed">>, <<"Ready", "Ready">>, <<"Ready", "Closed">>}

InSubscribeOnce == InFlight \ {"skip_logged", "result", "logged"}

C21_Live ==
    /\ pc \in InSubscribeOnce =>
          (Lifecycle(pc) = "Ready" /\ browsers >= 1 /\ auth_file)
    /\ browsers <= 1
    /\ Lifecycle(pc) = "Closed" => browsers = 0
    /\ Lifecycle(pc) = "Authenticating" => trail = <<>>

C21_Step ==
    /\ <<Lifecycle(pc), Lifecycle(pc')>> \in LifecycleSteps
    /\ (pc = "restart" /\ pc' = "for") => browsers' = 1
    /\ Lifecycle(pc) = "Closed" => (trail' \in {trail, <<>>} /\ files' = files)

\* C21: the session goes from not initialised through authenticating to
\* ready, is recycled any number of times, and is closed at the end;
\* subscribe_once runs only with a live browser opened from auth.json, a
\* recycle closes the old browser before it opens the new one, so that never
\* more than one browser is live, and nothing is processed once it is closed.
C21_SessionLifecycle == []C21_Live /\ [][C21_Step]_vars

\* ---------------------------------------------------------------------- C22
SubSteps ==
    {"resolve_subscribe", "subscribe_clicked", "subscribe_click_raised",
     "subscribed_found", "subscribed_not_found", "open_menu", "none_clicked"} \cup Strategies

\* C22: when page.goto fails, subscribe_once returns Failed with the
\* navigation reason at once: the Subscribe button is not looked for, nor a
\* Subscribed button, nor the notification menu; and the row goes to the
\* skipped sink with that reason.
C22_NavigationFailureIsFinal ==
    /\ result.reason = "navigation" =>
          /\ pc \in AfterResult
          /\ ~result.ok
          /\ trace = <<"goto">>
          /\ notif = "-"
          /\ strategy = "-"
          /\ \A k \in DOMAIN trace : trace[k] \notin SubSteps
    /\ NavigationFailed => result = SubscribeResult(FALSE, "navigation")
    /\ (pc = "logged" /\ result.reason = "navigation") =>
          LastIs(skipped_file, [i |-> idx, reason |-> "navigation"])

C22_Witness ==
    /\ pc = "logged"
    /\ idx = 1
    /\ result = SubscribeResult(FALSE, "navigation")
    /\ trace = <<"goto">>
    /\ LastIs(skipped_file, [i |-> 1, reason |-> "navigation"])
    /\ log_file # <<>>
====
